---- MODULE Spec2Model ----
(***************************************************************************)
(* HealthGuide/Scripts/convert_subscription_logs.py as a state machine.    *)
(*                                                                         *)
(* The script imports re, builds the list `replacements` of                *)
(* (matcher, template) tuples, prints a status line and prints the length  *)
(* of the list.  A string of the script is a sequence of characters, each  *)
(* a one-character TLA+ string; a character outside ASCII is written by    *)
(* its code point ("U+1F4F1"), so it is the only kind of character whose   *)
(* TLA+ string is longer than one.                                         *)
(*                                                                         *)
(* Every variable is a function over `runs`, the invocations of the script *)
(* under observation: one under Spec and FairSpec, two independent ones    *)
(* under PairSpec.                                                         *)
(***************************************************************************)
EXTENDS Integers, Sequences, FiniteSets

VARIABLES
  runs,          \* the invocations of the script
  argv,          \* argv[r]: the command-line arguments after the script name
  environ,       \* environ[r]: the environment variables of the process
  pc,            \* pc[r]: the statement the interpreter is at
  modules,       \* modules[r]: the names bound by import statements
  replacements,  \* replacements[r]: the list, entry by entry as the display is evaluated
  stdout,        \* stdout[r]: the lines written to standard output, each a sequence of characters
  status,        \* status[r]: the exit status of the process in a sequence, empty while it runs
  opened,        \* opened[r]: the files the script has opened
  applied        \* applied[r]: the matchers the script has evaluated against a text

vars == <<runs, argv, environ, pc, modules, replacements, stdout, status, opened, applied>>

\* Longest argument list of an invocation.
MaxArgs == 1

\* The target file the status line names.
TargetFile == "SubscriptionManager.swift"

ArgWords == {TargetFile}

Argvs == UNION {[1..k -> ArgWords] : k \in 0..MaxArgs}

\* PYTHONIOENCODING selects the encoding of sys.stdout; unset leaves UTF-8.
Environments == [PYTHONIOENCODING : {"unset", "ascii"}]

(***************************************************************************)
(* The list display of lines 10-54, section by section.                    *)
(***************************************************************************)
\* Initialization and setup (lines 12-22)
InitializationRules ==
  <<
   <<<<"p","r","i","n","t","\\","(","\"","U+1F4F1"," ","S","u","b","s","c","r","i","p","t","i","o","n","M","a","n","a","g","e","r",":"," ","I","n","i","t","i","a","l","i","z","e","d",".","*","?","\"","\\",")">>,
     <<"A","p","p","L","o","g","g","e","r",".","s","u","b","s","c","r","i","p","t","i","o","n",".","d","e","b","u","g","(","\"","S","u","b","s","c","r","i","p","t","i","o","n","M","a","n","a","g","e","r"," ","i","n","i","t","i","a","l","i","z","e","d"," ","w","i","t","h"," ","d","e","f","e","r","r","e","d"," ","S","t","o","r","e","K","i","t","\"",")">>>>,
   <<<<"p","r","i","n","t","\\","(","\"","U+1F3A7"," ","S","t","a","r","t","i","n","g"," ","t","r","a","n","s","a","c","t","i","o","n"," ","l","i","s","t","e","n","e","r",".","*","?","\"","\\",")">>,
     <<"A","p","p","L","o","g","g","e","r",".","s","u","b","s","c","r","i","p","t","i","o","n",".","i","n","f","o","(","\"","S","t","a","r","t","i","n","g"," ","t","r","a","n","s","a","c","t","i","o","n"," ","l","i","s","t","e","n","e","r","\"",")">>>>,
   <<<<"p","r","i","n","t","\\","(","\"","U+1F50D"," ","C","h","e","c","k","i","n","g"," ","f","o","r"," ","u","n","f","i","n","i","s","h","e","d"," ","t","r","a","n","s","a","c","t","i","o","n","s",".","*","?","\"","\\",")">>,
     <<"A","p","p","L","o","g","g","e","r",".","s","u","b","s","c","r","i","p","t","i","o","n",".","d","e","b","u","g","(","\"","C","h","e","c","k","i","n","g"," ","f","o","r"," ","u","n","f","i","n","i","s","h","e","d"," ","t","r","a","n","s","a","c","t","i","o","n","s","\"",")">>>>,
   <<<<"p","r","i","n","t","\\","(","\"","U+26A0","U+FE0F"," ","S","u","b","s","c","r","i","p","t","i","o","n","M","a","n","a","g","e","r"," ","a","l","r","e","a","d","y"," ","i","n","i","t","i","a","l","i","z","e","d",".","*","?","\"","\\",")">>,
     <<"A","p","p","L","o","g","g","e","r",".","s","u","b","s","c","r","i","p","t","i","o","n",".","d","e","b","u","g","(","\"","S","u","b","s","c","r","i","p","t","i","o","n","M","a","n","a","g","e","r"," ","a","l","r","e","a","d","y"," ","i","n","i","t","i","a","l","i","z","e","d"," ","-"," ","s","k","i","p","p","i","n","g","\"",")">>>>,
   <<<<"p","r","i","n","t","\\","(","\"","U+1F6CD","U+FE0F"," ","I","n","i","t","i","a","l","i","z","i","n","g"," ","S","u","b","s","c","r","i","p","t","i","o","n","M","a","n","a","g","e","r",".","*","?","\"","\\",")">>,
     <<"A","p","p","L","o","g","g","e","r",".","s","u","b","s","c","r","i","p","t","i","o","n",".","i","n","f","o","(","\"","I","n","i","t","i","a","l","i","z","i","n","g"," ","S","u","b","s","c","r","i","p","t","i","o","n","M","a","n","a","g","e","r","\"",")">>>>,
   <<<<"p","r","i","n","t","\\","(","\"","U+1F4F1"," ","R","u","n","n","i","n","g"," ","o","n"," ","d","e","v","i","c","e",".","*","?","\"","\\",")">>,
     <<"A","p","p","L","o","g","g","e","r",".","s","u","b","s","c","r","i","p","t","i","o","n",".","d","e","b","u","g","(","\"","R","u","n","n","i","n","g"," ","o","n"," ","d","e","v","i","c","e"," ","-"," ","i","n","i","t","i","a","l","i","z","i","n","g"," ","S","t","o","r","e","K","i","t","\"",")">>>>,
   <<<<"p","r","i","n","t","\\","(","\"","U+26A0","U+FE0F"," ","R","u","n","n","i","n","g"," ","i","n"," ","s","i","m","u","l","a","t","o","r",".","*","?","\"","\\",")">>,
     <<"A","p","p","L","o","g","g","e","r",".","s","u","b","s","c","r","i","p","t","i","o","n",".","w","a","r","n","i","n","g","(","\"","R","u","n","n","i","n","g"," ","i","n"," ","s","i","m","u","l","a","t","o","r"," ","-"," ","S","t","o","r","e","K","i","t"," ","m","a","y"," ","n","o","t"," ","w","o","r","k"," ","w","i","t","h","o","u","t"," ","A","p","p","l","e"," ","I","D","\"",")">>>>,
   <<<<"p","r","i","n","t","\\","(","\"","U+1F527"," ","S","e","t","t","i","n","g"," ","u","p"," ","S","t","o","r","e","K","i","t",".","*","?","\"","\\",")">>,
     <<"A","p","p","L","o","g","g","e","r",".","s","u","b","s","c","r","i","p","t","i","o","n",".","d","e","b","u","g","(","\"","S","e","t","t","i","n","g"," ","u","p"," ","S","t","o","r","e","K","i","t"," ","c","o","m","p","o","n","e","n","t","s","\"",")">>>>,
   <<<<"p","r","i","n","t","\\","(","\"","U+1F4CA"," ","C","h","e","c","k","i","n","g"," ","s","u","b","s","c","r","i","p","t","i","o","n"," ","s","t","a","t","u","s",".","*","?","\"","\\",")">>,
     <<"A","p","p","L","o","g","g","e","r",".","s","u","b","s","c","r","i","p","t","i","o","n",".","d","e","b","u","g","(","\"","C","h","e","c","k","i","n","g"," ","s","u","b","s","c","r","i","p","t","i","o","n"," ","s","t","a","t","u","s","\"",")">>>>,
   <<<<"p","r","i","n","t","\\","(","\"","U+1F4E6"," ","L","o","a","d","i","n","g"," ","p","r","o","d","u","c","t","s",".","*","?","\"","\\",")">>,
     <<"A","p","p","L","o","g","g","e","r",".","s","u","b","s","c","r","i","p","t","i","o","n",".","d","e","b","u","g","(","\"","L","o","a","d","i","n","g"," ","p","r","o","d","u","c","t","s"," ","f","r","o","m"," ","A","p","p"," ","S","t","o","r","e","\"",")">>>>,
   <<<<"p","r","i","n","t","\\","(","\"","U+2705"," ","S","u","b","s","c","r","i","p","t","i","o","n","M","a","n","a","g","e","r"," ","i","n","i","t","i","a","l","i","z","a","t","i","o","n"," ","c","o","m","p","l","e","t","e","\"","\\",")">>,
     <<"A","p","p","L","o","g","g","e","r",".","s","u","b","s","c","r","i","p","t","i","o","n",".","s","u","c","c","e","s","s","(","\"","S","u","b","s","c","r","i","p","t","i","o","n","M","a","n","a","g","e","r"," ","i","n","i","t","i","a","l","i","z","a","t","i","o","n"," ","c","o","m","p","l","e","t","e","\"",")">>>>
  >>

\* Transaction handling (lines 25-30)
TransactionRules ==
  <<
   <<<<"p","r","i","n","t","\\","(","\"","U+1F3A7"," ","T","r","a","n","s","a","c","t","i","o","n"," ","l","i","s","t","e","n","e","r"," ","a","c","t","i","v","e",".","*","?","\"","\\",")">>,
     <<"A","p","p","L","o","g","g","e","r",".","s","u","b","s","c","r","i","p","t","i","o","n",".","i","n","f","o","(","\"","T","r","a","n","s","a","c","t","i","o","n"," ","l","i","s","t","e","n","e","r"," ","a","c","t","i","v","e","\"",")">>>>,
   <<<<"p","r","i","n","t","\\","(","\"","U+1F6D1"," ","T","r","a","n","s","a","c","t","i","o","n"," ","l","i","s","t","e","n","e","r"," ","c","a","n","c","e","l","l","e","d","\"","\\",")">>,
     <<"A","p","p","L","o","g","g","e","r",".","s","u","b","s","c","r","i","p","t","i","o","n",".","d","e","b","u","g","(","\"","T","r","a","n","s","a","c","t","i","o","n"," ","l","i","s","t","e","n","e","r"," ","c","a","n","c","e","l","l","e","d","\"",")">>>>,
   <<<<"p","r","i","n","t","\\","(","\"","U+1F4E6"," ","T","r","a","n","s","a","c","t","i","o","n"," ","u","p","d","a","t","e"," ","r","e","c","e","i","v","e","d","\"","\\",")">>,
     <<"A","p","p","L","o","g","g","e","r",".","s","u","b","s","c","r","i","p","t","i","o","n",".","d","e","b","u","g","(","\"","T","r","a","n","s","a","c","t","i","o","n"," ","u","p","d","a","t","e"," ","r","e","c","e","i","v","e","d","\"",")">>>>,
   <<<<"p","r","i","n","t","\\","(","\"","U+1F504"," ","A","u","t","o","-","r","e","n","e","w","a","b","l","e"," ","s","u","b","s","c","r","i","p","t","i","o","n"," ","t","r","a","n","s","a","c","t","i","o","n","\"","\\",")">>,
     <<"A","p","p","L","o","g","g","e","r",".","s","u","b","s","c","r","i","p","t","i","o","n",".","d","e","b","u","g","(","\"","P","r","o","c","e","s","s","i","n","g"," ","a","u","t","o","-","r","e","n","e","w","a","b","l","e"," ","s","u","b","s","c","r","i","p","t","i","o","n","\"",")">>>>,
   <<<<"p","r","i","n","t","\\","(","\"","U+2705"," ","T","r","a","n","s","a","c","t","i","o","n"," ","f","i","n","i","s","h","e","d"," ","a","n","d"," ","r","e","m","o","v","e","d"," ","f","r","o","m"," ","q","u","e","u","e","\"","\\",")">>,
     <<"A","p","p","L","o","g","g","e","r",".","s","u","b","s","c","r","i","p","t","i","o","n",".","d","e","b","u","g","(","\"","T","r","a","n","s","a","c","t","i","o","n"," ","c","o","m","p","l","e","t","e","d"," ","a","n","d"," ","f","i","n","i","s","h","e","d","\"",")">>>>,
   <<<<"p","r","i","n","t","\\","(","\"","U+26A0","U+FE0F"," ","T","r","a","n","s","a","c","t","i","o","n"," ","l","i","s","t","e","n","e","r"," ","e","n","d","e","d","\"","\\",")">>,
     <<"A","p","p","L","o","g","g","e","r",".","s","u","b","s","c","r","i","p","t","i","o","n",".","w","a","r","n","i","n","g","(","\"","T","r","a","n","s","a","c","t","i","o","n"," ","l","i","s","t","e","n","e","r"," ","e","n","d","e","d","\"",")">>>>
  >>

\* ProductRules with the price referenced as \3, a group its matcher lacks
ProductRulesBadRef ==
  <<
   <<<<"p","r","i","n","t","\\","(","\"","U+1F50D"," ","A","t","t","e","m","p","t","i","n","g"," ","t","o"," ","l","o","a","d"," ","p","r","o","d","u","c","t"," ","I","D",":"," ","\\","\\","(",".","+","?","\\","\\",")","\"","\\",")">>,
     <<"A","p","p","L","o","g","g","e","r",".","s","u","b","s","c","r","i","p","t","i","o","n",".","d","e","b","u","g","(","\"","L","o","a","d","i","n","g"," ","p","r","o","d","u","c","t"," ","I","D",":"," ","\\","(","\\","1",","," ","p","r","i","v","a","c","y",":"," ",".","p","u","b","l","i","c",")","\"",")">>>>,
   <<<<"p","r","i","n","t","\\","(","\"","U+2705"," ","L","o","a","d","e","d"," ","\\","\\","(",".","+","?","\\","\\",")"," ","p","r","o","d","u","c","t","s","\"","\\",")">>,
     <<"A","p","p","L","o","g","g","e","r",".","s","u","b","s","c","r","i","p","t","i","o","n",".","s","u","c","c","e","s","s","(","\"","L","o","a","d","e","d"," ","\\","(","\\","1",")"," ","p","r","o","d","u","c","t","s","\"",")">>>>,
   <<<<"p","r","i","n","t","\\","(","\""," "," ","-"," ","P","r","o","d","u","c","t",":"," ","\\","\\","(",".","+","?","\\","\\",")",","," ","P","r","i","c","e",":"," ","\\","\\","(",".","+","?","\\","\\",")","\"","\\",")">>,
     <<"A","p","p","L","o","g","g","e","r",".","s","u","b","s","c","r","i","p","t","i","o","n",".","d","e","b","u","g","(","\"","P","r","o","d","u","c","t",":"," ","\\","(","\\","1",","," ","p","r","i","v","a","c","y",":"," ",".","p","u","b","l","i","c",")",","," ","P","r","i","c","e",":"," ","\\","(","\\","3",","," ","p","r","i","v","a","c","y",":"," ",".","p","u","b","l","i","c",")","\"",")">>>>
  >>

\* Products and pricing (lines 33-35)
ProductRules ==
  <<
   <<<<"p","r","i","n","t","\\","(","\"","U+1F50D"," ","A","t","t","e","m","p","t","i","n","g"," ","t","o"," ","l","o","a","d"," ","p","r","o","d","u","c","t"," ","I","D",":"," ","\\","\\","(",".","+","?","\\","\\",")","\"","\\",")">>,
     <<"A","p","p","L","o","g","g","e","r",".","s","u","b","s","c","r","i","p","t","i","o","n",".","d","e","b","u","g","(","\"","L","o","a","d","i","n","g"," ","p","r","o","d","u","c","t"," ","I","D",":"," ","\\","(","\\","1",","," ","p","r","i","v","a","c","y",":"," ",".","p","u","b","l","i","c",")","\"",")">>>>,
   <<<<"p","r","i","n","t","\\","(","\"","U+2705"," ","L","o","a","d","e","d"," ","\\","\\","(",".","+","?","\\","\\",")"," ","p","r","o","d","u","c","t","s","\"","\\",")">>,
     <<"A","p","p","L","o","g","g","e","r",".","s","u","b","s","c","r","i","p","t","i","o","n",".","s","u","c","c","e","s","s","(","\"","L","o","a","d","e","d"," ","\\","(","\\","1",")"," ","p","r","o","d","u","c","t","s","\"",")">>>>,
   <<<<"p","r","i","n","t","\\","(","\""," "," ","-"," ","P","r","o","d","u","c","t",":"," ","\\","\\","(",".","+","?","\\","\\",")",","," ","P","r","i","c","e",":"," ","\\","\\","(",".","+","?","\\","\\",")","\"","\\",")">>,
     <<"A","p","p","L","o","g","g","e","r",".","s","u","b","s","c","r","i","p","t","i","o","n",".","d","e","b","u","g","(","\"","P","r","o","d","u","c","t",":"," ","\\","(","\\","1",","," ","p","r","i","v","a","c","y",":"," ",".","p","u","b","l","i","c",")",","," ","P","r","i","c","e",":"," ","\\","(","\\","2",","," ","p","r","i","v","a","c","y",":"," ",".","p","u","b","l","i","c",")","\"",")">>>>
  >>

\* Errors (lines 38-39)
ErrorRules ==
  <<
   <<<<"p","r","i","n","t","\\","(","\"","U+274C"," ","(",".","+","?",")","\"","\\",")">>,
     <<"A","p","p","L","o","g","g","e","r",".","s","u","b","s","c","r","i","p","t","i","o","n",".","e","r","r","o","r","(","\"","\\","1","\"",")">>>>,
   <<<<"p","r","i","n","t","\\","(","\"","U+26A0","U+FE0F"," ","(",".","+","?",")","\"","\\",")">>,
     <<"A","p","p","L","o","g","g","e","r",".","s","u","b","s","c","r","i","p","t","i","o","n",".","w","a","r","n","i","n","g","(","\"","\\","1","\"",")">>>>
  >>

\* Success messages (line 42)
SuccessRules ==
  <<
   <<<<"p","r","i","n","t","\\","(","\"","U+2705"," ","(",".","+","?",")","\"","\\",")">>,
     <<"A","p","p","L","o","g","g","e","r",".","s","u","b","s","c","r","i","p","t","i","o","n",".","s","u","c","c","e","s","s","(","\"","\\","1","\"",")">>>>
  >>

\* DebugRules with the first rule pasted again as the last
DebugRulesDup ==
  <<
   <<<<"p","r","i","n","t","\\","(","\"","U+1F50D"," ","(",".","+","?",")","\"","\\",")">>,
     <<"A","p","p","L","o","g","g","e","r",".","s","u","b","s","c","r","i","p","t","i","o","n",".","d","e","b","u","g","(","\"","\\","1","\"",")">>>>,
   <<<<"p","r","i","n","t","\\","(","\"","U+1F4E6"," ","(",".","+","?",")","\"","\\",")">>,
     <<"A","p","p","L","o","g","g","e","r",".","s","u","b","s","c","r","i","p","t","i","o","n",".","d","e","b","u","g","(","\"","\\","1","\"",")">>>>,
   <<<<"p","r","i","n","t","\\","(","\"","U+1F504"," ","(",".","+","?",")","\"","\\",")">>,
     <<"A","p","p","L","o","g","g","e","r",".","s","u","b","s","c","r","i","p","t","i","o","n",".","d","e","b","u","g","(","\"","\\","1","\"",")">>>>,
   <<<<"p","r","i","n","t","\\","(","\"","U+1F9F9"," ","(",".","+","?",")","\"","\\",")">>,
     <<"A","p","p","L","o","g","g","e","r",".","s","u","b","s","c","r","i","p","t","i","o","n",".","d","e","b","u","g","(","\"","\\","1","\"",")">>>>,
   <<<<"p","r","i","n","t","\\","(","\"","U+1F50D"," ","(",".","+","?",")","\"","\\",")">>,
     <<"A","p","p","L","o","g","g","e","r",".","s","u","b","s","c","r","i","p","t","i","o","n",".","d","e","b","u","g","(","\"","\\","1","\"",")">>>>
  >>

\* Debug with string interpolation (lines 45-49)
DebugRules ==
  <<
   <<<<"p","r","i","n","t","\\","(","\"","U+1F50D"," ","(",".","+","?",")","\"","\\",")">>,
     <<"A","p","p","L","o","g","g","e","r",".","s","u","b","s","c","r","i","p","t","i","o","n",".","d","e","b","u","g","(","\"","\\","1","\"",")">>>>,
   <<<<"p","r","i","n","t","\\","(","\"","U+1F4E6"," ","(",".","+","?",")","\"","\\",")">>,
     <<"A","p","p","L","o","g","g","e","r",".","s","u","b","s","c","r","i","p","t","i","o","n",".","d","e","b","u","g","(","\"","\\","1","\"",")">>>>,
   <<<<"p","r","i","n","t","\\","(","\"","U+1F504"," ","(",".","+","?",")","\"","\\",")">>,
     <<"A","p","p","L","o","g","g","e","r",".","s","u","b","s","c","r","i","p","t","i","o","n",".","d","e","b","u","g","(","\"","\\","1","\"",")">>>>,
   <<<<"p","r","i","n","t","\\","(","\"","U+1F9F9"," ","(",".","+","?",")","\"","\\",")">>,
     <<"A","p","p","L","o","g","g","e","r",".","s","u","b","s","c","r","i","p","t","i","o","n",".","d","e","b","u","g","(","\"","\\","1","\"",")">>>>,
   <<<<"p","r","i","n","t","\\","(","\"","U+1F4F1"," ","(",".","+","?",")","\"","\\",")">>,
     <<"A","p","p","L","o","g","g","e","r",".","s","u","b","s","c","r","i","p","t","i","o","n",".","d","e","b","u","g","(","\"","\\","1","\"",")">>>>
  >>

\* CatchAllRules in the opposite order
CatchAllRulesSwapped ==
  <<
   <<<<"p","r","i","n","t","\\","(","(",".","+","?",")","\\",")">>,
     <<"A","p","p","L","o","g","g","e","r",".","s","u","b","s","c","r","i","p","t","i","o","n",".","d","e","b","u","g","(","\\","1",")">>>>,
   <<<<"p","r","i","n","t","\\","(","\"","(",".","+","?",")","\"","\\",")">>,
     <<"A","p","p","L","o","g","g","e","r",".","s","u","b","s","c","r","i","p","t","i","o","n",".","d","e","b","u","g","(","\"","\\","1","\"",")">>>>
  >>

\* Generic catch-all for remaining prints (lines 52-53)
CatchAllRules ==
  <<
   <<<<"p","r","i","n","t","\\","(","\"","(",".","+","?",")","\"","\\",")">>,
     <<"A","p","p","L","o","g","g","e","r",".","s","u","b","s","c","r","i","p","t","i","o","n",".","d","e","b","u","g","(","\"","\\","1","\"",")">>>>,
   <<<<"p","r","i","n","t","\\","(","(",".","+","?",")","\\",")">>,
     <<"A","p","p","L","o","g","g","e","r",".","s","u","b","s","c","r","i","p","t","i","o","n",".","d","e","b","u","g","(","\\","1",")">>>>
  >>

ReplacementsLiteral ==
  InitializationRules \o TransactionRules \o ProductRules \o ErrorRules
    \o SuccessRules \o DebugRules \o CatchAllRules

Matcher(rule) == rule[1]

Template(rule) == rule[2]

\* The status line with the check mark the script's own patterns look for.
StatusLineEmoji ==
  <<"U+2705"," ","R","e","p","l","a","c","e","m","e","n","t"," ","p","a","t","t","e","r","n","s"," ","r","e","a","d","y"," ","f","o","r"," ","S","u","b","s","c","r","i","p","t","i","o","n","M","a","n","a","g","e","r",".","s","w","i","f","t">>

\* The string literal of line 56.
StatusLine ==
  <<"R","e","p","l","a","c","e","m","e","n","t"," ","p","a","t","t","e","r","n","s"," ","r","e","a","d","y"," ","f","o","r"," ","S","u","b","s","c","r","i","p","t","i","o","n","M","a","n","a","g","e","r",".","s","w","i","f","t">>

\* The literal part of the f-string of line 57.
CountPrefix ==
  <<"T","o","t","a","l"," ","p","a","t","t","e","r","n","s",":"," ">>

(***************************************************************************)
(* Strings.                                                                *)
(***************************************************************************)
RECURSIVE Join(_)
Join(chars) == IF chars = <<>> THEN "" ELSE Head(chars) \o Join(Tail(chars))

Digits == <<"0", "1", "2", "3", "4", "5", "6", "7", "8", "9">>

IsDigit(c) == \E d \in 1..10 : Digits[d] = c

DigitVal(c) == (CHOOSE d \in 1..10 : Digits[d] = c) - 1

\* The digits of n least significant first: the slip of a hand-rolled str().
RECURSIVE FormatIntReversed(_)
FormatIntReversed(n) ==
  IF n < 10 THEN <<Digits[n + 1]>>
  ELSE <<Digits[(n % 10) + 1]>> \o FormatIntReversed(n \div 10)

\* {len(replacements)} in the f-string: the decimal digits of a natural number.
RECURSIVE FormatInt(_)
FormatInt(n) ==
  IF n < 10 THEN <<Digits[n + 1]>>
  ELSE FormatInt(n \div 10) \o <<Digits[(n % 10) + 1]>>

(***************************************************************************)
(* Regular expressions, as the re module reads the strings of the table:   *)
(* a backslash escapes the character after it, and "(" not followed by "?" *)
(* opens a capture group.  In a template a backslash followed by one or    *)
(* two digits references a group.  The table has no character class.       *)
(***************************************************************************)
\* The number of backslashes that stand directly before position i of s.
BackslashesBefore(s, i) ==
  CHOOSE d \in 0..(i - 1) :
    /\ d = i - 1 \/ s[i - 1 - d] # "\\"
    /\ \A e \in 0..(d - 1) : s[i - 1 - e] = "\\"

\* Position i of s is taken by the escape that the backslash before it opens.
Escaped(s, i) == BackslashesBefore(s, i) % 2 = 1

\* Position i of s holds a backslash that opens an escape.
OpensEscape(s, i) == s[i] = "\\" /\ ~Escaped(s, i)

\* re.compile(m).groups
NumGroups(m) ==
  Cardinality({i \in 1..Len(m) :
    /\ m[i] = "("
    /\ ~Escaped(m, i)
    /\ ~(i < Len(m) /\ m[i + 1] = "?")})

\* The group numbers that the template t references.
TemplateRefs(t) ==
  {IF i + 1 < Len(t) /\ IsDigit(t[i + 2])
   THEN 10 * DigitVal(t[i + 1]) + DigitVal(t[i + 2])
   ELSE DigitVal(t[i + 1]) :
     i \in {k \in 1..(Len(t) - 1) : OpensEscape(t, k) /\ IsDigit(t[k + 1])}}

(***************************************************************************)
(* Standard output.                                                        *)
(***************************************************************************)
StdoutEncoding(env) ==
  IF env.PYTHONIOENCODING = "unset" THEN "utf-8" ELSE env.PYTHONIOENCODING

\* Every code point encodes to UTF-8; only ASCII encodes to ascii.
Encodable(c, enc) == enc = "utf-8" \/ Len(c) = 1

\* print(line): the line is written, or the encoder raises UnicodeEncodeError
\* and the uncaught exception ends the process with status 1.
PrintLine(r, chars, next) ==
  IF \A i \in 1..Len(chars) : Encodable(chars[i], StdoutEncoding(environ[r]))
  THEN /\ stdout' = [stdout EXCEPT ![r] = Append(@, chars)]
       /\ pc' = [pc EXCEPT ![r] = next]
       /\ UNCHANGED status
  ELSE /\ pc' = [pc EXCEPT ![r] = "done"]
       /\ status' = [status EXCEPT ![r] = <<1>>]
       /\ UNCHANGED stdout

(***************************************************************************)
(* The initial states.                                                     *)
(***************************************************************************)
Start(rs) ==
  /\ runs = rs
  /\ argv \in [rs -> Argvs]
  /\ environ \in [rs -> Environments]
  /\ pc = [r \in rs |-> "import"]
  /\ modules = [r \in rs |-> {}]
  /\ replacements = [r \in rs |-> <<>>]
  /\ stdout = [r \in rs |-> <<>>]
  /\ status = [r \in rs |-> <<>>]
  /\ opened = [r \in rs |-> {}]
  /\ applied = [r \in rs |-> {}]

Init == Start({1})

PairInit == Start({1, 2})

(***************************************************************************)
(* The statements of the script.                                           *)
(***************************************************************************)
\* line 7: import re
ImportRe(r) ==
  /\ pc[r] = "import"
  /\ modules' = [modules EXCEPT ![r] = @ \cup {"re"}]
  /\ pc' = [pc EXCEPT ![r] = "build"]
  /\ UNCHANGED <<runs, argv, environ, replacements, stdout, status, opened, applied>>

\* The display with the comma after the Errors section lost: the tuple before
\* it is called with the next one as its argument, which raises TypeError.
BuildEntryMissingComma(r) ==
  /\ pc[r] = "build"
  /\ Len(replacements[r]) < Len(ReplacementsLiteral)
  /\ IF Len(replacements[r]) + 1 = Len(ReplacementsLiteral) - Len(CatchAllRules)
     THEN /\ pc' = [pc EXCEPT ![r] = "done"]
          /\ status' = [status EXCEPT ![r] = <<1>>]
          /\ UNCHANGED replacements
     ELSE /\ replacements' =
               [replacements EXCEPT ![r] = Append(@, ReplacementsLiteral[Len(@) + 1])]
          /\ pc' = [pc EXCEPT ![r] =
               IF Len(replacements[r]) + 1 = Len(ReplacementsLiteral)
               THEN "print_status" ELSE "build"]
          /\ UNCHANGED status
  /\ UNCHANGED <<runs, argv, environ, modules, stdout, opened, applied>>

\* The status line is reached with the last entry of the display still to come.
BuildEntryStopsEarly(r) ==
  /\ pc[r] = "build"
  /\ Len(replacements[r]) < Len(ReplacementsLiteral)
  /\ replacements' =
       [replacements EXCEPT ![r] = Append(@, ReplacementsLiteral[Len(@) + 1])]
  /\ pc' = [pc EXCEPT ![r] =
       IF Len(replacements[r]) + 2 >= Len(ReplacementsLiteral)
       THEN "print_status" ELSE "build"]
  /\ UNCHANGED <<runs, argv, environ, modules, stdout, status, opened, applied>>

\* lines 10-54: the display is evaluated left to right, one tuple at a time;
\* after the last tuple the list is bound to `replacements`.
BuildEntry(r) ==
  /\ pc[r] = "build"
  /\ Len(replacements[r]) < Len(ReplacementsLiteral)
  /\ replacements' =
       [replacements EXCEPT ![r] = Append(@, ReplacementsLiteral[Len(@) + 1])]
  /\ pc' = [pc EXCEPT ![r] =
       IF Len(replacements[r]) + 1 = Len(ReplacementsLiteral)
       THEN "print_status" ELSE "build"]
  /\ UNCHANGED <<runs, argv, environ, modules, stdout, status, opened, applied>>

\* The status line printed after opening the file it names.
PrintStatusOpensTarget(r) ==
  /\ pc[r] = "print_status"
  /\ opened' = [opened EXCEPT ![r] = @ \cup {TargetFile}]
  /\ PrintLine(r, StatusLine, "print_count")
  /\ UNCHANGED <<runs, argv, environ, modules, replacements, applied>>

\* line 56
PrintStatus(r) ==
  /\ pc[r] = "print_status"
  /\ PrintLine(r, StatusLine, "print_count")
  /\ UNCHANGED <<runs, argv, environ, modules, replacements, opened, applied>>

\* The count taken as the index of the last entry.
PrintCountOffByOne(r) ==
  /\ pc[r] = "print_count"
  /\ PrintLine(r, CountPrefix \o FormatInt(Len(replacements[r]) - 1), "exit")
  /\ UNCHANGED <<runs, argv, environ, modules, replacements, opened, applied>>

\* The count printed, and the list emptied as it is counted.
PrintCountDrains(r) ==
  /\ pc[r] = "print_count"
  /\ PrintLine(r, CountPrefix \o FormatInt(Len(replacements[r])), "exit")
  /\ replacements' = [replacements EXCEPT ![r] = <<>>]
  /\ UNCHANGED <<runs, argv, environ, modules, opened, applied>>

\* line 57
PrintCount(r) ==
  /\ pc[r] = "print_count"
  /\ PrintLine(r, CountPrefix \o FormatInt(Len(replacements[r])), "exit")
  /\ UNCHANGED <<runs, argv, environ, modules, replacements, opened, applied>>

\* The end of the module body: the interpreter exits with status 0.
ExitProcess(r) ==
  /\ pc[r] = "exit"
  /\ pc' = [pc EXCEPT ![r] = "done"]
  /\ status' = [status EXCEPT ![r] = <<0>>]
  /\ UNCHANGED <<runs, argv, environ, modules, replacements, stdout, opened, applied>>

Next ==
  \E r \in runs :
    \/ ImportRe(r)
    \/ BuildEntry(r)
    \/ PrintStatus(r)
    \/ PrintCount(r)
    \/ ExitProcess(r)

\* One invocation.
Spec == Init /\ [][Next]_vars

\* One invocation that the operating system keeps scheduling.
FairSpec == Init /\ [][Next]_vars /\ WF_vars(Next)

\* Two invocations side by side, each with its own arguments and environment.
PairSpec == PairInit /\ [][Next]_vars

(***************************************************************************)
(* Properties.                                                             *)
(***************************************************************************)
Constructed(r) == pc[r] \notin {"import", "build"}

Finished(r) == pc[r] = "done"

Lines(r) == [k \in 1..Len(stdout[r]) |-> Join(stdout[r][k])]

\* The value of a sequence of decimal digits.
RECURSIVE ParseInt(_)
ParseInt(ds) ==
  IF ds = <<>> THEN 0
  ELSE 10 * ParseInt(SubSeq(ds, 1, Len(ds) - 1)) + DigitVal(ds[Len(ds)])

\* The number N of a line "Total patterns: N".
PrintedCount(line) == ParseInt(SubSeq(line, Len(CountPrefix) + 1, Len(line)))

IsCountLine(line) ==
  /\ Len(line) > Len(CountPrefix)
  /\ SubSeq(line, 1, Len(CountPrefix)) = CountPrefix
  /\ \A k \in (Len(CountPrefix) + 1)..Len(line) : IsDigit(line[k])

\* C1, as stated: a finished run has written 'Replacement patterns ready for
\* SubscriptionManager.swift' and then 'Total patterns: 28'.
C1_Output28 ==
  \A r \in runs :
    Finished(r) =>
      Lines(r) = <<"Replacement patterns ready for SubscriptionManager.swift",
                   "Total patterns: 28">>

\* C1, amended: a finished run has written exactly the two lines 'Replacement
\* patterns ready for SubscriptionManager.swift' and 'Total patterns: 30'.
C1_Output30 ==
  \A r \in runs :
    Finished(r) =>
      Lines(r) = <<"Replacement patterns ready for SubscriptionManager.swift",
                   "Total patterns: 30">>

C1_Witness ==
  \E r \in runs : Finished(r) /\ Len(stdout[r]) = 2 /\ status[r] = <<0>>

\* C2: the number printed in the 'Total patterns: N' line is the number of
\* entries of the display of `replacements`, and two invocations print the
\* same number.
C2_CountIsLiteralLength ==
  /\ \A r \in runs :
       Len(stdout[r]) >= 2 =>
         /\ IsCountLine(stdout[r][2])
         /\ PrintedCount(stdout[r][2]) =
              Len(InitializationRules) + Len(TransactionRules) + Len(ProductRules)
                + Len(ErrorRules) + Len(SuccessRules) + Len(DebugRules)
                + Len(CatchAllRules)
  /\ \A r1, r2 \in runs :
       Len(stdout[r1]) >= 2 /\ Len(stdout[r2]) >= 2 =>
         PrintedCount(stdout[r1][2]) = PrintedCount(stdout[r2][2])

C2_Witness ==
  \E r1, r2 \in runs :
    /\ r1 # r2
    /\ Len(stdout[r1]) = 2 /\ Len(stdout[r2]) = 2
    /\ PrintedCount(stdout[r1][2]) = Len(replacements[r1])

PcRank(p) ==
  CASE p = "import" -> 0
    [] p = "build" -> 1
    [] p = "print_status" -> 2
    [] p = "print_count" -> 3
    [] p = "exit" -> 4
    [] p = "done" -> 5

C3_Order(r) ==
  /\ ~Constructed(r) => stdout[r] = <<>>
  /\ stdout[r] # <<>> => replacements[r] = ReplacementsLiteral
  /\ pc[r] = "print_status" => stdout[r] = <<>>
  /\ pc[r] = "print_count" => stdout[r] = <<StatusLine>>
  /\ pc[r] \in {"exit", "done"} =>
       /\ Len(stdout[r]) = 2
       /\ stdout[r][1] = StatusLine
       /\ IsCountLine(stdout[r][2])

C3_Step(r) ==
  /\ PcRank(pc'[r]) \in {PcRank(pc[r]), PcRank(pc[r]) + 1}
  /\ Len(stdout'[r]) \in {Len(stdout[r]), Len(stdout[r]) + 1}
  /\ stdout[r] = SubSeq(stdout'[r], 1, Len(stdout[r]))

\* C3: a run is one linear pass: the table is constructed, then the status line
\* is written, then the count line, then the process exits; two lines are
\* written in all, the status line first, and none before the table is complete.
C3_LinearPass ==
  /\ [](\A r \in runs : C3_Order(r))
  /\ [][\A r \in runs : C3_Step(r)]_vars

C3_Witness ==
  \E r \in runs :
    /\ pc[r] = "print_count"
    /\ stdout[r] = <<StatusLine>>
    /\ Len(replacements[r]) = Len(ReplacementsLiteral)

\* C4: every invocation eventually terminates with exit status 0, and no run
\* ever fails: the only exit status a run takes is 0.
C4_TerminatesWithSuccess ==
  /\ [](\A r \in runs : status[r] \in {<<>>, <<0>>})
  /\ [](\A r \in runs : Finished(r) => status[r] = <<0>>)
  /\ <>(\A r \in runs : Finished(r) /\ status[r] = <<0>>)

C4_Witness ==
  \E r \in runs :
    /\ Finished(r) /\ status[r] = <<0>>
    /\ environ[r].PYTHONIOENCODING = "ascii"
    /\ Len(replacements[r]) = Len(ReplacementsLiteral)

\* C5: in every rule of the table, every group index the template references
\* (\1, \2, ...) is at most the number of capture groups of the rule's matcher.
C5_RefsExist ==
  \A r \in runs :
    \A i \in 1..Len(replacements[r]) :
      \A g \in TemplateRefs(Template(replacements[r][i])) :
        g <= NumGroups(Matcher(replacements[r][i]))

C5_Witness ==
  \E r \in runs :
    /\ Len(replacements[r]) = Len(ReplacementsLiteral)
    /\ \E i \in 1..Len(replacements[r]) :
         /\ TemplateRefs(Template(replacements[r][i])) = {1, 2}
         /\ NumGroups(Matcher(replacements[r][i])) = 2
    /\ \E i \in 1..Len(replacements[r]) :
         /\ TemplateRefs(Template(replacements[r][i])) = {}
         /\ NumGroups(Matcher(replacements[r][i])) = 0

\* C6: once constructed the table is never mutated: from the end of the
\* construction to the exit of the process it is the sequence of the display,
\* and no step, the two prints included, changes it.
C6_TableImmutable ==
  /\ [](\A r \in runs : Constructed(r) => replacements[r] = ReplacementsLiteral)
  /\ [][\A r \in runs : Constructed(r) => replacements'[r] = replacements[r]]_vars

C6_Witness ==
  \E r \in runs :
    /\ Finished(r)
    /\ Len(stdout[r]) = 2
    /\ replacements[r] = ReplacementsLiteral

\* C7: the output does not depend on the invocation's inputs: two finished runs,
\* whatever their arguments and environment variables, have written the same
\* lines and have the same exit status.
C7_InputIndependent ==
  \A r1, r2 \in runs :
    Finished(r1) /\ Finished(r2) =>
      /\ stdout[r1] = stdout[r2]
      /\ status[r1] = status[r2]

C7_Witness ==
  \E r1, r2 \in runs :
    /\ Finished(r1) /\ Finished(r2)
    /\ argv[r1] # argv[r2]
    /\ environ[r1] # environ[r2]
    /\ stdout[r1] # <<>>

\* C8: no rule is applied and no file is opened: a run evaluates no matcher
\* against any text, never opens SubscriptionManager.swift or any other file,
\* and the lines on standard output are its only effect.
C8_NoOtherEffect ==
  \A r \in runs :
    /\ applied[r] = {}
    /\ opened[r] = {}
    /\ TargetFile \notin opened[r]

C8_Witness ==
  \E r \in runs :
    /\ Finished(r)
    /\ Len(stdout[r]) = 2
    /\ stdout[r][1] = StatusLine
    /\ opened[r] = {}

\* C9: the matchers of the table are pairwise distinct, so the table has as
\* many distinct matchers as entries.
C9_MatchersDistinct ==
  \A r \in runs :
    /\ \A i, j \in 1..Len(replacements[r]) :
         i # j => Matcher(replacements[r][i]) # Matcher(replacements[r][j])
    /\ Cardinality({Matcher(replacements[r][i]) : i \in 1..Len(replacements[r])})
         = Len(replacements[r])

C9_Witness ==
  \E r \in runs :
    /\ Len(replacements[r]) = Len(ReplacementsLiteral)
    /\ Len(replacements[r]) > 1
    /\ pc[r] = "print_status"

\* The two catch-all matchers, print\("(.+?)"\) and print\((.+?)\).
QuotedCatchAll ==
  <<"p","r","i","n","t","\\","(","\"","(",".","+","?",")","\"","\\",")">>

UnquotedCatchAll ==
  <<"p","r","i","n","t","\\","(","(",".","+","?",")","\\",")">>

\* C10: the table runs from specific to generic: every rule whose matcher has
\* no capture group comes before every rule whose matcher has one, and the
\* last two entries are the quoted and then the unquoted catch-all.
C10_SpecificBeforeGeneric ==
  \A r \in runs :
    /\ \A i, j \in 1..Len(replacements[r]) :
         /\ NumGroups(Matcher(replacements[r][i])) = 0
         /\ NumGroups(Matcher(replacements[r][j])) > 0
         => i < j
    /\ Constructed(r) =>
         /\ Len(replacements[r]) >= 2
         /\ Matcher(replacements[r][Len(replacements[r]) - 1]) = QuotedCatchAll
         /\ Matcher(replacements[r][Len(replacements[r])]) = UnquotedCatchAll

C10_Witness ==
  \E r \in runs :
    /\ Constructed(r)
    /\ \E i \in 1..Len(replacements[r]) : NumGroups(Matcher(replacements[r][i])) = 0
    /\ \E j \in 1..Len(replacements[r]) : NumGroups(Matcher(replacements[r][j])) > 0
    /\ pc[r] = "exit"
====
